---- MODULE Spec2Model ----
(***************************************************************************)
(* Model of compare-env: CompareEnv.compare() and the helpers it calls     *)
(* (src/unnamed/part_000, the CompareEnvUtil class), with the command line *)
(* of src/index.ts as the input of one run.                                *)
(*                                                                         *)
(* JavaScript values are records [kind, text, kids]:                       *)
(*   kind  the value's type ("string", "number", "null", "object",         *)
(*         "array", "date", "function", "undefined"),                      *)
(*   text  String(value) of a scalar,                                      *)
(*   kids  the own enumerable properties of an object or array, in         *)
(*         insertion order, each [key, value].                             *)
(* A property name is a sequence of tokens, so that joining names with the *)
(* separator is concatenation and "a.b" is <<"a", ".", "b">>.              *)
(***************************************************************************)
EXTENDS Integers, Sequences, FiniteSets, TLC

VARIABLES
    firstConfigFile,         \* first command-line file: [ext, onDisk]
    secondConfigFile,        \* second command-line file: [ext, onDisk]
    options,                 \* ConfigOptions: [keys, values]
    pc,                      \* position inside compare() / the function under test
    firstConfigObject,       \* parsed first file (flat object)
    secondConfigObject,      \* parsed second file (flat object)
    firstConfigObjectKeys,   \* Object.keys(firstConfigObject)
    secondConfigObjectKeys,  \* Object.keys(secondConfigObject)
    compareResult,           \* CompareConfigKeysRecord returned by compareEnvKeys
    configDifferences,       \* object returned by getValueDifferences
    thrown,                  \* the exception in flight: [name, detail]
    exitCode,                \* process exit code, NotExited while running
    log,                     \* everything the run did, in order: [kind, text, data]
    obj,                     \* argument of flattenObj (the value yaml.load returned)
    result                   \* value returned by flattenObj

vars == << firstConfigFile, secondConfigFile, options, pc, firstConfigObject,
           secondConfigObject, firstConfigObjectKeys, secondConfigObjectKeys,
           compareResult, configDifferences, thrown, exitCode, log, obj, result >>

---------------------------------------------------------------------------
(* Bounds *)

MaxKeys == 2        \* longest key list handed to compareEnvKeys
MaxNodes == 3       \* most values (below the root) in a document handed to flattenObj
MaxFileNodes == 2   \* most values (below the root) in a file read by compare()

---------------------------------------------------------------------------
(* JavaScript values *)

Str(s) == [kind |-> "string", text |-> s, kids |-> << >>]
Num(s) == [kind |-> "number", text |-> s, kids |-> << >>]
Null == [kind |-> "null", text |-> "null", kids |-> << >>]
Undefined == [kind |-> "undefined", text |-> "undefined", kids |-> << >>]
\* a YAML timestamp, which yaml.load returns as a Date: an object without enumerable properties
Date == [kind |-> "date", text |-> "2001-12-14", kids |-> << >>]
Function == [kind |-> "function", text |-> "function", kids |-> << >>]
Obj(entries) == [kind |-> "object", text |-> "", kids |-> entries]
Arr(elems) ==
    [kind |-> "array", text |-> "",
     kids |-> [i \in 1..Len(elems) |-> [key |-> << ToString(i - 1) >>, value |-> elems[i]]]]

sep == << "." >>

ObjectPrototypeKeys == { << "toString" >> }

Range(s) == { s[i] : i \in 1..Len(s) }

\* Object.keys(o): the own property names, in order
ObjectKeys(o) == [i \in 1..Len(o.kids) |-> o.kids[i].key]

HasOwn(o, key) == \E i \in 1..Len(o.kids) : o.kids[i].key = key

\* o[key]: own property, else the one inherited from Object.prototype, else undefined
GetProp(o, key) ==
    IF HasOwn(o, key)
    THEN (CHOOSE e \in Range(o.kids) : e.key = key).value
    ELSE IF key \in ObjectPrototypeKeys THEN Function ELSE Undefined

\* o[key] = value: an existing property keeps its place, a new one is appended
SetProp(o, key, value) ==
    IF HasOwn(o, key)
    THEN [o EXCEPT !.kids = [i \in 1..Len(o.kids) |->
              IF o.kids[i].key = key THEN [key |-> key, value |-> value] ELSE o.kids[i]]]
    ELSE [o EXCEPT !.kids = Append(o.kids, [key |-> key, value |-> value])]

RECURSIVE ObjectAssignFrom(_, _, _)
ObjectAssignFrom(target, source, i) ==
    IF i > Len(source.kids) THEN target
    ELSE ObjectAssignFrom(SetProp(target, source.kids[i].key, source.kids[i].value), source, i + 1)

\* Object.assign(target, source)
ObjectAssign(target, source) == ObjectAssignFrom(target, source, 1)

---------------------------------------------------------------------------
(* flattenObj *)

IsNestedObjectNotArray(value) == value.kind = "object"

\* typeof obj[key] === 'object' && obj[key] !== null
IsNestedObject(value) == value.kind \in {"object", "array", "date"}

NewKey(parentKey, key) == IF parentKey # << >> THEN parentKey \o sep \o key ELSE key

RECURSIVE flattenFrom(_, _, _, _)
\* the for-in loop of flattenObj from its i-th property on, with the result so far
flattenFrom(o, parentKey, i, acc) ==
    IF i > Len(o.kids) THEN acc
    ELSE LET key == o.kids[i].key
             value == o.kids[i].value
             newKey == NewKey(parentKey, key)
         IN  IF IsNestedObject(value)
             THEN flattenFrom(o, parentKey, i + 1,
                              ObjectAssign(acc, flattenFrom(value, newKey, 1, Obj(<< >>))))
             ELSE flattenFrom(o, parentKey, i + 1, SetProp(acc, newKey, value))

flattenObj(o) == flattenFrom(o, << >>, 1, Obj(<< >>))

isEmpty(o) == Len(ObjectKeys(o)) = 0

---------------------------------------------------------------------------
(* compareEnvKeys *)

compareEnvKeysSwapped(firstConfigObjectArray, secondConfigObjectArray) ==
    LET set1 == Range(firstConfigObjectArray)
        set2 == Range(secondConfigObjectArray)
        NotInFirst(item) == item \notin set1
        NotInSecond(item) == item \notin set2
    IN  [missingKeysInFirstConfigFile |-> SelectSeq(firstConfigObjectArray, NotInSecond),
         missingKeysInSecondConfigFile |-> SelectSeq(secondConfigObjectArray, NotInFirst)]

compareEnvKeys(firstConfigObjectArray, secondConfigObjectArray) ==
    LET set1 == Range(firstConfigObjectArray)
        set2 == Range(secondConfigObjectArray)
        NotInFirst(item) == item \notin set1
        NotInSecond(item) == item \notin set2
    IN  [missingKeysInFirstConfigFile |-> SelectSeq(secondConfigObjectArray, NotInFirst),
         missingKeysInSecondConfigFile |-> SelectSeq(firstConfigObjectArray, NotInSecond)]

---------------------------------------------------------------------------
(* getValueDifferences *)

\* [...Object.keys(first), ...Object.keys(second)] through a Set: first's keys, then second's new ones
AllKeys(first, second) ==
    LET NotInFirst(k) == ~ HasOwn(first, k)
    IN  ObjectKeys(first) \o SelectSeq(ObjectKeys(second), NotInFirst)

\* value1 !== value2 on primitives: same type and same value
StrictEquals(value1, value2) == value1.kind = value2.kind /\ value1.text = value2.text

RECURSIVE differencesFrom(_, _, _, _)
differencesFrom(first, second, keys, i) ==
    IF i > Len(keys) THEN << >>
    ELSE LET value1 == GetProp(first, keys[i])
             value2 == GetProp(second, keys[i])
             rest == differencesFrom(first, second, keys, i + 1)
         IN  IF value1 # Undefined /\ value2 # Undefined /\ ~ StrictEquals(value1, value2)
             THEN << [key |-> keys[i], first |-> value1, second |-> value2] >> \o rest
             ELSE rest

getValueDifferences(first, second) == differencesFrom(first, second, AllKeys(first, second), 1)

---------------------------------------------------------------------------
(* Inputs: documents a parser can return and key lists Object.keys can return *)

RECURSIVE Size(_), SizeFrom(_, _)
SizeFrom(kids, i) == IF i > Len(kids) THEN 0 ELSE Size(kids[i].value) + SizeFrom(kids, i + 1)
\* number of values in a value, itself included
Size(value) == 1 + SizeFrom(value.kids, 1)

RECURSIVE Trees(_, _, _), Entries(_, _, _), Elements(_, _, _)
\* the values of at most n values, with property names from keys (kept in that order)
Trees(n, keys, scalars) ==
    IF n = 0 THEN {}
    ELSE scalars
         \cup { Obj(e) : e \in Entries(n - 1, keys, scalars) }
         \cup { Arr(l) : l \in Elements(n - 1, keys, scalars) }

\* the property lists of an object of at most n values in all
Entries(n, keys, scalars) ==
    IF n = 0 \/ keys = << >> THEN { << >> }
    ELSE Entries(n, Tail(keys), scalars)
         \cup UNION { { << [key |-> Head(keys), value |-> t] >> \o e :
                          e \in Entries(n - Size(t), Tail(keys), scalars) } :
                      t \in Trees(n, keys, scalars) }

\* the element lists of an array of at most n values in all
Elements(n, keys, scalars) ==
    IF n = 0 THEN { << >> }
    ELSE { << >> }
         \cup UNION { { << t >> \o l : l \in Elements(n - Size(t), keys, scalars) } :
                      t \in Trees(n, keys, scalars) }

\* what yaml.load returns: a mapping, a sequence, or null for an empty document
Documents(n, keys, scalars) ==
    { Null } \cup { Obj(e) : e \in Entries(n, keys, scalars) }
             \cup { Arr(l) : l \in Elements(n, keys, scalars) }

FlattenKeys == << << "a" >>, << "b" >>, << "a", ".", "b" >> >>
FlattenScalars == { Str("x"), Num("1"), Null, Date }
FlattenInputs == Documents(MaxNodes, FlattenKeys, FlattenScalars)

FileKeys == << << "a" >>, << "toString" >> >>
EnvKeys == << << "a" >>, << "b" >> >>
YamlScalars == { Str("1"), Str("2"), Num("1") }
EnvScalars == { Str("1"), Str("2") }
\* yaml.load's results for the files a run reads
YamlContents == Documents(MaxFileNodes, FileKeys, YamlScalars)
\* dotenv.parse's results: flat objects of strings
EnvContents ==
    { Obj(e) : e \in { f \in Entries(MaxFileNodes, EnvKeys, EnvScalars) :
                          \A i \in 1..Len(f) : f[i].value \in EnvScalars } }

KeyNames == { << "A" >>, << "B" >>, << "C" >> }
RECURSIVE KeyLists(_)
\* the duplicate-free key lists of at most n keys
KeyLists(n) ==
    IF n = 0 THEN { << >> }
    ELSE LET shorter == KeyLists(n - 1)
         IN  shorter \cup { Append(l, k) : l \in shorter, k \in KeyNames }
KeyArrays == { l \in KeyLists(MaxKeys) : Cardinality(Range(l)) = Len(l) }

Extensions == { ".env", ".yaml", ".yml", ".txt" }
NotExited == -1
NoError == [name |-> "none", detail |-> ""]

Idle ==
    /\ firstConfigFile = [ext |-> "", onDisk |-> FALSE]
    /\ secondConfigFile = [ext |-> "", onDisk |-> FALSE]
    /\ options = [keys |-> FALSE, values |-> FALSE]
    /\ firstConfigObject = Obj(<< >>)
    /\ secondConfigObject = Obj(<< >>)
    /\ configDifferences = << >>
    /\ thrown = NoError
    /\ exitCode = NotExited
    /\ log = << >>

NoKeyResult == [missingKeysInFirstConfigFile |-> << >>, missingKeysInSecondConfigFile |-> << >>]

---------------------------------------------------------------------------
(* compareEnvKeys on its own *)

InitKeys ==
    /\ Idle
    /\ pc = "call"
    /\ firstConfigObjectKeys \in KeyArrays
    /\ secondConfigObjectKeys \in KeyArrays
    /\ compareResult = NoKeyResult
    /\ obj = Null
    /\ result = Obj(<< >>)

CallCompareEnvKeys ==
    /\ pc = "call"
    /\ compareResult' = compareEnvKeys(firstConfigObjectKeys, secondConfigObjectKeys)
    /\ pc' = "return"
    /\ UNCHANGED << firstConfigFile, secondConfigFile, options, firstConfigObject,
                    secondConfigObject, firstConfigObjectKeys, secondConfigObjectKeys,
                    configDifferences, thrown, exitCode, log, obj, result >>

NextKeys == CallCompareEnvKeys
SpecKeys == InitKeys /\ [][NextKeys]_vars

---------------------------------------------------------------------------
(* flattenObj on its own *)

InitFlatten ==
    /\ Idle
    /\ pc = "call"
    /\ firstConfigObjectKeys = << >>
    /\ secondConfigObjectKeys = << >>
    /\ compareResult = NoKeyResult
    /\ obj \in FlattenInputs
    /\ result = Obj(<< >>)

CallFlattenObj ==
    /\ pc = "call"
    /\ result' = flattenObj(obj)
    /\ pc' = "return"
    /\ UNCHANGED << firstConfigFile, secondConfigFile, options, firstConfigObject,
                    secondConfigObject, firstConfigObjectKeys, secondConfigObjectKeys,
                    compareResult, configDifferences, thrown, exitCode, log, obj >>

NextFlatten == CallFlattenObj
SpecFlatten == InitFlatten /\ [][NextFlatten]_vars

---------------------------------------------------------------------------
(* One run of compare() *)

SupportedExtensions == { ".env", ".yaml", ".yml" }

Event(kind, text, data) == [kind |-> kind, text |-> text, data |-> data]

Init ==
    /\ firstConfigFile \in [ext : Extensions, onDisk : BOOLEAN]
    /\ secondConfigFile \in [ext : Extensions, onDisk : BOOLEAN]
    /\ options \in [keys : BOOLEAN, values : BOOLEAN]
    /\ pc = "checkIfBothFilesAreOfSameType"
    /\ firstConfigObject = Obj(<< >>)
    /\ secondConfigObject = Obj(<< >>)
    /\ firstConfigObjectKeys = << >>
    /\ secondConfigObjectKeys = << >>
    /\ compareResult = NoKeyResult
    /\ configDifferences = << >>
    /\ thrown = NoError
    /\ exitCode = NotExited
    /\ log = << >>
    /\ obj = Null
    /\ result = Obj(<< >>)

\* compare(), line 67: the extensions of the two names as given
checkIfBothFilesAreOfSameType ==
    /\ pc = "checkIfBothFilesAreOfSameType"
    /\ IF firstConfigFile.ext # secondConfigFile.ext
       THEN /\ thrown' = [name |-> "FileCompareError", detail |-> ""]
            /\ pc' = "catch"
       ELSE /\ thrown' = thrown
            /\ pc' = "parseFirst"
    /\ UNCHANGED << firstConfigFile, secondConfigFile, options, firstConfigObject,
                    secondConfigObject, firstConfigObjectKeys, secondConfigObjectKeys,
                    compareResult, configDifferences, exitCode, log, obj, result >>

\* validateAndReturnResolvedFilePath: the error it throws for a file, or NoError
validateAndReturnResolvedFilePath(which, file) ==
    IF ~ file.onDisk THEN [name |-> "FileNotFoundError", detail |-> which]
    ELSE IF file.ext \notin SupportedExtensions
         THEN [name |-> "UnsupportedFileTypeError", detail |-> file.ext]
         ELSE NoError

\* parseFile(file): validation, the read, and the parse; parsed is the object it returns
parseFile(which, file, parsed, next) ==
    LET invalid == validateAndReturnResolvedFilePath(which, file)
    IN  IF invalid # NoError
        THEN /\ thrown' = invalid
             /\ pc' = "catch"
             /\ UNCHANGED << log, parsed >>
        ELSE \/ \* fs.readFileSync throws (the path is a directory, or unreadable)
                /\ thrown' = [name |-> "Error", detail |-> which]
                /\ pc' = "catch"
                /\ UNCHANGED << log, parsed >>
             \/ \* lines 107-109: dotenv.parse, which accepts any text
                /\ file.ext = ".env"
                /\ \E content \in EnvContents : parsed' = content
                /\ log' = log \o << Event("read", which, << >>), Event("parse", which, << >>) >>
                /\ pc' = next
                /\ thrown' = thrown
             \/ \* lines 110-112: yaml.load, then flattenObj
                /\ file.ext # ".env"
                /\ \E document \in YamlContents : parsed' = flattenObj(document)
                /\ log' = log \o << Event("read", which, << >>), Event("parse", which, << >>) >>
                /\ pc' = next
                /\ thrown' = thrown
             \/ \* line 112: yaml.load throws on text that is not YAML
                /\ file.ext # ".env"
                /\ thrown' = [name |-> "YAMLException", detail |-> which]
                /\ log' = log \o << Event("read", which, << >>), Event("parse", which, << >>) >>
                /\ pc' = "catch"
                /\ UNCHANGED parsed

\* compare(), line 69
parseFirst ==
    /\ pc = "parseFirst"
    /\ parseFile("first", firstConfigFile, firstConfigObject, "parseSecond")
    /\ UNCHANGED << firstConfigFile, secondConfigFile, options, secondConfigObject,
                    firstConfigObjectKeys, secondConfigObjectKeys, compareResult,
                    configDifferences, exitCode, obj, result >>

\* compare(), line 70
parseSecond ==
    /\ pc = "parseSecond"
    /\ parseFile("second", secondConfigFile, secondConfigObject, "checkIfAnyEnvironmentObjectIsEmpty")
    /\ UNCHANGED << firstConfigFile, secondConfigFile, options, firstConfigObject,
                    firstConfigObjectKeys, secondConfigObjectKeys, compareResult,
                    configDifferences, exitCode, obj, result >>

\* what checkIfAnyEnvironmentObjectIsEmpty prints
emptyMessage(first, second) ==
    IF isEmpty(first) /\ isEmpty(second) THEN << Event("stdout", "Both config files are empty.", << >>) >>
    ELSE IF isEmpty(first) THEN << Event("stdout", "file first is empty.", << >>) >>
    ELSE IF isEmpty(second) THEN << Event("stdout", "file second is empty.", << >>) >>
    ELSE << >>

\* compare(), line 73: the helper prints and returns to compare()
checkIfAnyEnvironmentObjectIsEmpty ==
    /\ pc = "checkIfAnyEnvironmentObjectIsEmpty"
    /\ log' = log \o emptyMessage(firstConfigObject, secondConfigObject)
    /\ pc' = "compareMode"
    /\ UNCHANGED << firstConfigFile, secondConfigFile, options, firstConfigObject,
                    secondConfigObject, firstConfigObjectKeys, secondConfigObjectKeys,
                    compareResult, configDifferences, thrown, exitCode, obj, result >>

determineMessageByCheckingArraySize(array) ==
    IF Len(array) = 0 THEN "No missing key in config file"
    ELSE IF Len(array) = 1 THEN "This key is missing from" ELSE "These keys are missing from"

\* what printKeyDifferences prints
printKeyDifferences(res) ==
    << Event("stdout", determineMessageByCheckingArraySize(res.missingKeysInFirstConfigFile), << >>),
       Event("stdout", "keys missing from first", res.missingKeysInFirstConfigFile),
       Event("stdout", determineMessageByCheckingArraySize(res.missingKeysInSecondConfigFile), << >>),
       Event("stdout", "keys missing from second", res.missingKeysInSecondConfigFile) >>

\* what printValueDifferences prints, or the message of line 91
printValueDifferences(output) ==
    IF Len(output) > 0
    THEN << Event("stdout", "Differences found between files:",
                  [i \in 1..Len(output) |-> output[i].key]) >>
    ELSE << Event("stdout", "No value differences found between the two files.", << >>) >>

\* line 79: if (this.options.keys)
keysMode(opts) == opts.keys

valuesModeWithoutElse(opts) == opts.values

\* line 84: else if (this.options.values)
valuesMode(opts) == ~ keysMode(opts) /\ opts.values

\* compare(), lines 76-92, and the normal end of the process
compareMode ==
    /\ pc = "compareMode"
    /\ firstConfigObjectKeys' = ObjectKeys(firstConfigObject)
    /\ secondConfigObjectKeys' = ObjectKeys(secondConfigObject)
    /\ LET keysResult == compareEnvKeys(firstConfigObjectKeys', secondConfigObjectKeys')
           valuesResult == getValueDifferences(firstConfigObject, secondConfigObject)
           runKeys == keysMode(options)
           runValues == valuesMode(options)
       IN  /\ compareResult' = IF runKeys THEN keysResult ELSE compareResult
           /\ configDifferences' = IF runValues THEN valuesResult ELSE configDifferences
           /\ log' = log
                  \o (IF runKeys
                      THEN << Event("call", "compareEnvKeys", << >>) >> \o printKeyDifferences(keysResult)
                      ELSE << >>)
                  \o (IF runValues
                      THEN << Event("call", "getValueDifferences", << >>) >> \o printValueDifferences(valuesResult)
                      ELSE << >>)
    /\ pc' = "done"
    /\ exitCode' = 0
    /\ UNCHANGED << firstConfigFile, secondConfigFile, options, firstConfigObject,
                    secondConfigObject, thrown, obj, result >>

catchWithoutExit ==
    /\ pc = "catch"
    /\ log' = Append(log, Event("stderr", thrown.name, << >>))
    /\ exitCode' = 0
    /\ pc' = "exited"
    /\ UNCHANGED << firstConfigFile, secondConfigFile, options, firstConfigObject,
                    secondConfigObject, firstConfigObjectKeys, secondConfigObjectKeys,
                    compareResult, configDifferences, thrown, obj, result >>

\* compare(), lines 93-100
catch ==
    /\ pc = "catch"
    /\ log' = Append(log, Event("stderr", thrown.name, << >>))
    /\ exitCode' = 1
    /\ pc' = "exited"
    /\ UNCHANGED << firstConfigFile, secondConfigFile, options, firstConfigObject,
                    secondConfigObject, firstConfigObjectKeys, secondConfigObjectKeys,
                    compareResult, configDifferences, thrown, obj, result >>

Next ==
    \/ checkIfBothFilesAreOfSameType
    \/ parseFirst
    \/ parseSecond
    \/ checkIfAnyEnvironmentObjectIsEmpty
    \/ compareMode
    \/ catch

Spec == Init /\ [][Next]_vars

---------------------------------------------------------------------------
(* Vocabulary of the properties *)

Primitives == { "string", "number", "null" }
Containers == { "object", "array" }

RECURSIVE Join(_)
\* the `.`-join of the keys on a path
Join(path) ==
    IF Len(path) = 0 THEN << >>
    ELSE IF Len(path) = 1 THEN path[1]
    ELSE path[1] \o << "." >> \o Join(Tail(path))

RECURSIVE Leaves(_, _, _)
\* the scalars of a document, each with the keys on its path and whether the path crosses a sequence
Leaves(value, path, viaArray) ==
    IF value.kind \in Containers
    THEN UNION { Leaves(value.kids[i].value, Append(path, value.kids[i].key),
                        viaArray \/ value.kind = "array") : i \in 1..Len(value.kids) }
    ELSE { [path |-> path, value |-> value, viaArray |-> viaArray] }

DocLeaves(document) == IF document.kind \in Containers THEN Leaves(document, << >>, FALSE) ELSE {}

RECURSIVE ArrayValues(_, _)
\* the sequences that are the value of a key reached through mappings only
ArrayValues(value, path) ==
    IF value.kind = "object"
    THEN UNION { ArrayValues(value.kids[i].value, Append(path, value.kids[i].key)) :
                 i \in 1..Len(value.kids) }
    ELSE IF value.kind = "array" /\ path # << >> THEN { [path |-> path, value |-> value] }
    ELSE {}

RECURSIVE OnlyMapsAndPrimitives(_)
\* a document of mappings, strings, numbers and nulls
OnlyMapsAndPrimitives(value) ==
    /\ value.kind \in Primitives \cup { "object" }
    /\ \A i \in 1..Len(value.kids) : OnlyMapsAndPrimitives(value.kids[i].value)

Called(function) == \E i \in 1..Len(log) : log[i].kind = "call" /\ log[i].text = function
Printed(text, data) ==
    \E i \in 1..Len(log) : log[i].kind = "stdout" /\ log[i].text = text /\ log[i].data = data
WroteToStdout == \E i \in 1..Len(log) : log[i].kind = "stdout"
TouchedAFile == \E i \in 1..Len(log) : log[i].kind \in { "read", "parse" }
Terminated == pc \in { "done", "exited" }
EmptyMessages == { "Both config files are empty.", "file first is empty.", "file second is empty." }

\* the format family of an extension; an unrecognized extension is a family of its own
Family(ext) == IF ext \in { ".yaml", ".yml" } THEN "yaml" ELSE ext

---------------------------------------------------------------------------
(* Properties *)

\* C1: after compareEnvKeys(A, B), a key is in missingKeysInFirstConfigFile iff it is
\* in B and not in A, and in missingKeysInSecondConfigFile iff it is in A and not in B;
\* comparing a key list with itself yields two empty lists.
C1_KeyComparison ==
    pc = "return" =>
        LET A == Range(firstConfigObjectKeys)
            B == Range(secondConfigObjectKeys)
            missingInFirst == Range(compareResult.missingKeysInFirstConfigFile)
            missingInSecond == Range(compareResult.missingKeysInSecondConfigFile)
        IN  /\ \A k \in KeyNames \cup missingInFirst \cup missingInSecond :
                  /\ k \in missingInFirst <=> (k \in B /\ k \notin A)
                  /\ k \in missingInSecond <=> (k \in A /\ k \notin B)
            /\ firstConfigObjectKeys = secondConfigObjectKeys => compareResult = NoKeyResult

C1_Witness ==
    /\ pc = "return"
    /\ compareResult.missingKeysInFirstConfigFile # << >>
    /\ compareResult.missingKeysInSecondConfigFile # << >>
    /\ Range(firstConfigObjectKeys) \cap Range(secondConfigObjectKeys) # {}

\* C2: after getValueDifferences(A, B), a key is in the result iff it has a defined
\* value in both A and B and the two values differ as strings; its entry carries A's
\* value and B's value; a document compared with itself gives an empty result.
C2_ValueComparison ==
    Called("getValueDifferences") =>
        LET A == firstConfigObject
            B == secondConfigObject
            reported == { configDifferences[i].key : i \in 1..Len(configDifferences) }
        IN  /\ \A k \in Range(ObjectKeys(A)) \cup Range(ObjectKeys(B)) \cup reported :
                  k \in reported <=>
                      /\ HasOwn(A, k) /\ GetProp(A, k) # Undefined
                      /\ HasOwn(B, k) /\ GetProp(B, k) # Undefined
                      /\ GetProp(A, k).text # GetProp(B, k).text
            /\ \A i \in 1..Len(configDifferences) :
                  /\ configDifferences[i].first = GetProp(A, configDifferences[i].key)
                  /\ configDifferences[i].second = GetProp(B, configDifferences[i].key)
            /\ A = B => configDifferences = << >>

\* C3: a finished run on two files on disk failed with FileCompareError exactly when
\* the two extensions belong to different format families, .yaml and .yml being one family.
C3_FormatFamily ==
    ( Terminated /\ firstConfigFile.onDisk /\ secondConfigFile.onDisk ) =>
        (thrown.name = "FileCompareError"
            <=> Family(firstConfigFile.ext) # Family(secondConfigFile.ext))

\* C4: with both files on disk, if either extension is not .env, .yaml or .yml, the
\* finished run failed with UnsupportedFileTypeError reporting such an extension.
C4_UnsupportedExtension ==
    ( /\ Terminated
      /\ firstConfigFile.onDisk /\ secondConfigFile.onDisk
      /\ \/ firstConfigFile.ext \notin SupportedExtensions
         \/ secondConfigFile.ext \notin SupportedExtensions )
    => /\ thrown.name = "UnsupportedFileTypeError"
       /\ thrown.detail \in { firstConfigFile.ext, secondConfigFile.ext } \ SupportedExtensions

\* C5: when a parsed document is empty, the run reports it and stops: the emptiness
\* message is the last thing the run did and no comparison was computed.
C5_EmptyDocumentStops ==
    ( pc = "done" /\ (isEmpty(firstConfigObject) \/ isEmpty(secondConfigObject)) )
    => /\ Len(log) > 0
       /\ log[Len(log)].kind = "stdout" /\ log[Len(log)].text \in EmptyMessages
       /\ ~ Called("compareEnvKeys")
       /\ ~ Called("getValueDifferences")

\* C6: when either file is not on disk (the two names having one extension, so that
\* the run gets past the extension check), no file is read or parsed in the run, and
\* the run fails with FileNotFoundError.
C6_ExistenceBeforeParsing ==
    ( /\ ~ firstConfigFile.onDisk \/ ~ secondConfigFile.onDisk
      /\ firstConfigFile.ext = secondConfigFile.ext )
    => /\ ~ TouchedAFile
       /\ pc # "done"
       /\ pc = "exited" => thrown.name = "FileNotFoundError"

\* C7: at most one comparison runs; with --keys the key comparison runs and is printed
\* and the value comparison does not run; the value comparison runs only with
\* --values and without --keys.
C7_ModeSelection ==
    /\ ~ (Called("compareEnvKeys") /\ Called("getValueDifferences"))
    /\ Called("getValueDifferences") => (options.values /\ ~ options.keys)
    /\ Called("compareEnvKeys") => options.keys
    /\ (pc = "done" /\ options.keys) =>
          /\ Called("compareEnvKeys")
          /\ compareResult = compareEnvKeys(ObjectKeys(firstConfigObject), ObjectKeys(secondConfigObject))
          /\ Printed("keys missing from first", compareResult.missingKeysInFirstConfigFile)
          /\ Printed("keys missing from second", compareResult.missingKeysInSecondConfigFile)
          /\ ~ Called("getValueDifferences")

C7_Witness ==
    /\ pc = "done"
    /\ options.keys /\ options.values
    /\ Called("compareEnvKeys")
    /\ compareResult.missingKeysInFirstConfigFile # << >>

\* C8: a run that fails wrote nothing to standard output, wrote its error to the error
\* stream last, and exits with code 1; a run that does not fail exits with code 0.
C8_AllOrNothing ==
    /\ thrown # NoError => ~ WroteToStdout
    /\ pc = "exited" =>
          /\ thrown # NoError
          /\ exitCode = 1
          /\ log[Len(log)] = Event("stderr", thrown.name, << >>)
    /\ pc = "done" => (thrown = NoError /\ exitCode = 0)
    /\ ~ Terminated => exitCode = NotExited

C8_Witness ==
    /\ pc = "exited"
    /\ thrown = [name |-> "YAMLException", detail |-> "second"]
    /\ ~ isEmpty(firstConfigObject)

\* C9: for a document of maps and scalars, every leaf scalar is in flattenObj's result
\* under the `.`-join of the keys on its path, every key of the result is that of a
\* leaf, no two leaves share a flattened key, and an empty document gives an empty result.
C9_FlattenTotalInjective ==
    ( pc = "return" /\ OnlyMapsAndPrimitives(obj) ) =>
        LET leaves == DocLeaves(obj)
        IN  /\ \A l \in leaves :
                  HasOwn(result, Join(l.path)) /\ GetProp(result, Join(l.path)) = l.value
            /\ \A k \in Range(ObjectKeys(result)) : \E l \in leaves : Join(l.path) = k
            /\ \A l1, l2 \in leaves : l1.path # l2.path => Join(l1.path) # Join(l2.path)
            /\ leaves = {} => result = Obj(<< >>)

\* C10: flattenObj keeps a sequence as the value of its key and the result has no
\* index-based key made from an element of a sequence.
C10_ArraysAreLeaves ==
    pc = "return" =>
        /\ \A a \in ArrayValues(obj, << >>) :
              HasOwn(result, Join(a.path)) /\ GetProp(result, Join(a.path)) = a.value
        /\ \A l \in DocLeaves(obj) : l.viaArray => ~ HasOwn(result, Join(l.path))

\* C10 (amended): flattenObj recurses into a sequence as into a map, with the element
\* indices as keys: every string, number or null below a sequence puts its index-based
\* key in the result, and no value of the result is a sequence or a map.
C10_ArraysAreFlattened ==
    pc = "return" =>
        /\ \A l \in DocLeaves(obj) :
              (l.viaArray /\ l.value.kind \in Primitives) => HasOwn(result, Join(l.path))
        /\ \A i \in 1..Len(result.kids) : result.kids[i].value.kind \notin Containers

C10_Witness ==
    /\ pc = "return"
    /\ HasOwn(result, << "a", ".", "0", ".", "b" >>)
    /\ \E l \in DocLeaves(obj) : l.viaArray /\ Len(l.path) = 3

====
